---- MODULE Spec2Model ----
(***************************************************************************)
(* State-machine model of the two polling schedulers of the repository:    *)
(* StockDataManager (stock-scraper.js) and LotteryManager                   *)
(* (lotterry-scraper.js), and of the main program that starts both.        *)
(*                                                                         *)
(* A manager is named by m \in Managers.  JavaScript strings are TLA+      *)
(* strings; the JavaScript value null is the string Null.                  *)
(***************************************************************************)
EXTENDS Integers, Sequences, FiniteSets, Bags, TLC

VARIABLES
  imported,     \* the managers whose module has been evaluated in this process
  currentData,  \* [m -> this.currentData]
  isRunning,    \* [m -> this.isRunning]
  timeoutId,    \* [m -> this.timeoutId]: NoTimer (null) or Held (a Timeout)
  timers,       \* [m -> the armed setTimeout callbacks of scheduleNextRun]
  file,         \* [m -> the content of CONFIG.dataFile]
  tasks,        \* [m -> the activations of start() and of the timer callback in flight]
  exited,       \* process.exit() has been called
  ev,           \* what the last step did (observation only)
  oldData,      \* argument of a direct call of detectChanges
  newData,      \* argument of a direct call of detectChanges / processNewData / saveData
  changes,      \* value returned by the direct call of detectChanges
  calls         \* the direct method calls made so far, with what they returned

schedVars == <<imported, currentData, isRunning, timeoutId, timers, file, tasks, exited, ev>>
unitVars  == <<oldData, newData, changes, calls>>
vars      == <<imported, currentData, isRunning, timeoutId, timers, file, tasks, exited, ev,
               oldData, newData, changes, calls>>

Managers == {"stock", "lottery"}

Null == "<null>"

-----------------------------------------------------------------------------
(* Bounds of the model                                                     *)

\* longest record sequence given to detectChanges as oldData
MaxOld == 2
\* longest record sequence given as newData / saved
MaxNew == 2
\* number of direct calls of loadExistingData, saveData and processNewData in a row
MaxCalls == 3
\* activations of start() and timer callbacks, in flight or armed, of one manager
MaxTasks == 2
\* number of direct calls of getRandomInterval in a row
MaxDraws == 2
\* how many products on each side of 1, of 2^18 and of the span are aimed at
\* when the values of Math.random() are chosen
Spread == 12

-----------------------------------------------------------------------------
(* CONFIG                                                                  *)

maxRetries == 3

-----------------------------------------------------------------------------
(* Records                                                                 *)

Times == {"t1", "t2"}

StockRec(cc, name, three, two, t) ==
  [countryCode |-> cc, stockName |-> name, threeDigits |-> three,
   twoDigits |-> two, lastUpdated |-> t]

Prizes(first, front, end, two) ==
  [firstPrize |-> first, three_front |-> front, three_end |-> end, two_end |-> two]

LottoRec(date, prizes, t) ==
  [date |-> date, prizes |-> prizes, lastUpdated |-> t]

\* The records the inputs are drawn from: for one key every single-field
\* variation of a base record, and a base record of a second and a third key.
StockUniverse ==
  { StockRec("us", "A", "111", "11", "t1"),
    StockRec("jp", "A", "111", "11", "t1"),
    StockRec("us", "A", "222", "11", "t1"),
    StockRec("us", "A", "111", "22", "t1"),
    StockRec("us", "A", "111", "11", "t2"),
    StockRec("us", "B", "111", "11", "t1"),
    StockRec("us", "C", "111", "11", "t1") }

LottoUniverse ==
  { LottoRec("d1", Prizes("100001", "101", "201", "01"), "t1"),
    LottoRec("d1", Prizes("100002", "101", "201", "01"), "t1"),
    LottoRec("d1", Prizes("100001", "102", "201", "01"), "t1"),
    LottoRec("d1", Prizes("100001", "101", "202", "01"), "t1"),
    LottoRec("d1", Prizes("100001", "101", "201", "02"), "t1"),
    LottoRec("d1", Prizes("100001", "101", "201", "01"), "t2"),
    LottoRec("d2", Prizes("100001", "101", "201", "01"), "t1"),
    LottoRec("d3", Prizes("100001", "101", "201", "01"), "t1") }

Universe(m) == IF m = "stock" THEN StockUniverse ELSE LottoUniverse

\* The records the snapshots and fetched sets of the stateful runs are drawn
\* from: a base record, a change of content, a change of timestamp only, and
\* a second key.
SmallUniverse(m) ==
  IF m = "stock"
    THEN { StockRec("us", "A", "111", "11", "t1"),
           StockRec("us", "A", "222", "11", "t1"),
           StockRec("us", "A", "111", "11", "t2"),
           StockRec("us", "B", "111", "11", "t1") }
    ELSE { LottoRec("d1", Prizes("100001", "101", "201", "01"), "t1"),
           LottoRec("d1", Prizes("100002", "101", "201", "01"), "t1"),
           LottoRec("d1", Prizes("100001", "101", "201", "01"), "t2"),
           LottoRec("d2", Prizes("100001", Null, Null, Null), "t1") }

SeqsUpTo(S, n) == UNION { [1..k -> S] : k \in 0..n }

\* the identity key: item.stockName (stock), item.date (lottery)
identity(m, item) == IF m = "stock" THEN item.stockName ELSE item.date

-----------------------------------------------------------------------------
(* JavaScript Map: entries kept in insertion order, set() on a key already *)
(* present replaces the value in place.                                    *)

MapHas(map, k) == \E i \in 1..Len(map) : map[i][1] = k

MapGet(map, k) == map[CHOOSE i \in 1..Len(map) : map[i][1] = k][2]

MapSet(map, k, v) ==
  IF MapHas(map, k)
    THEN [i \in 1..Len(map) |-> IF map[i][1] = k THEN <<k, v>> ELSE map[i]]
    ELSE Append(map, <<k, v>>)

RECURSIVE NewMapFrom(_, _, _)
NewMapFrom(m, data, n) ==
  IF n = 0 THEN <<>>
  ELSE MapSet(NewMapFrom(m, data, n - 1), identity(m, data[n]), data[n])

\* new Map(data.map(item => [key(item), item]))
NewMap(m, data) == NewMapFrom(m, data, Len(data))

-----------------------------------------------------------------------------
(* ChangeDetector                                                          *)

arePrizesEqual(p1, p2) ==
  /\ p1.firstPrize = p2.firstPrize
  /\ p1.three_front = p2.three_front
  /\ p1.three_end = p2.three_end
  /\ p1.two_end = p2.two_end

\* a comparison that also looks at the timestamp
hasDataChangedTimestamp(m, oldItem, newItem) == oldItem # newItem

hasDataChanged(m, oldItem, newItem) ==
  IF m = "stock"
    THEN \/ oldItem.threeDigits # newItem.threeDigits
         \/ oldItem.twoDigits # newItem.twoDigits
         \/ oldItem.countryCode # newItem.countryCode
    ELSE ~arePrizesEqual(oldItem.prizes, newItem.prizes)

\* first loop of detectChanges, over the first n entries of newMap
\* (an updated entry names its key `date` or `stockName`; here the field is `key`)
RECURSIVE AddedUpdated(_, _, _, _)
AddedUpdated(m, oldMap, newMap, n) ==
  IF n = 0 THEN [added |-> <<>>, updated |-> <<>>]
  ELSE LET acc == AddedUpdated(m, oldMap, newMap, n - 1)
           key == newMap[n][1]
           newItem == newMap[n][2]
       IN  IF ~MapHas(oldMap, key)
             THEN [acc EXCEPT !.added = Append(@, newItem)]
           ELSE IF hasDataChanged(m, MapGet(oldMap, key), newItem)
             THEN [acc EXCEPT !.updated =
                     Append(@, [key |-> key, old |-> MapGet(oldMap, key), new |-> newItem])]
           ELSE acc

\* second loop of detectChanges, over the first n entries of oldMap
RECURSIVE Removed(_, _, _)
Removed(oldMap, newMap, n) ==
  IF n = 0 THEN <<>>
  ELSE LET acc == Removed(oldMap, newMap, n - 1)
       IN  IF ~MapHas(newMap, oldMap[n][1]) THEN Append(acc, oldMap[n][2]) ELSE acc

\* a detector that forgets the removed records
detectChangesNoRemoved(m, old, new) ==
  LET oldMap == NewMap(m, old)
      newMap == NewMap(m, new)
      au == AddedUpdated(m, oldMap, newMap, Len(newMap))
  IN  [added |-> au.added, updated |-> au.updated, removed |-> <<>>]

detectChanges(m, old, new) ==
  LET oldMap == NewMap(m, old)
      newMap == NewMap(m, new)
      au == AddedUpdated(m, oldMap, newMap, Len(newMap))
  IN  [added |-> au.added, updated |-> au.updated,
       removed |-> Removed(oldMap, newMap, Len(oldMap))]

NoChanges == [added |-> <<>>, updated |-> <<>>, removed |-> <<>>]

totalChanges(c) == Len(c.added) + Len(c.updated) + Len(c.removed)

-----------------------------------------------------------------------------
(* JSON text.  A document is a tree of tagged nodes; every node has the    *)
(* same fields, of which its tag uses one.  File contents that are not     *)
(* JSON text are nodes too: "absent" (ENOENT), "unreadable" (any other     *)
(* readFile error) and "garbage" (JSON.parse throws a SyntaxError).        *)

Node(t, s, n, items, members) ==
  [t |-> t, s |-> s, n |-> n, items |-> items, members |-> members]

JStr(s)      == Node("str", s, 0, <<>>, <<>>)
JNum(n)      == Node("num", "", n, <<>>, <<>>)
JNull        == Node("null", "", 0, <<>>, <<>>)
JArr(items)  == Node("arr", "", 0, items, <<>>)
JObj(membs)  == Node("obj", "", 0, <<>>, membs)
Absent       == Node("absent", "", 0, <<>>, <<>>)
Unreadable   == Node("unreadable", "", 0, <<>>, <<>>)
Garbage      == Node("garbage", "", 0, <<>>, <<>>)

\* JSON.stringify of a string-or-null field
JsonOfField(v) == IF v = Null THEN JNull ELSE JStr(v)

\* JSON.stringify of one record: its own properties in creation order
JsonOfItem(m, item) ==
  IF m = "stock"
    THEN JObj(<< <<"countryCode", JsonOfField(item.countryCode)>>,
                 <<"stockName", JsonOfField(item.stockName)>>,
                 <<"threeDigits", JsonOfField(item.threeDigits)>>,
                 <<"twoDigits", JsonOfField(item.twoDigits)>>,
                 <<"lastUpdated", JsonOfField(item.lastUpdated)>> >>)
    ELSE JObj(<< <<"date", JsonOfField(item.date)>>,
                 <<"prizes", JObj(<< <<"firstPrize", JsonOfField(item.prizes.firstPrize)>>,
                                     <<"three_front", JsonOfField(item.prizes.three_front)>>,
                                     <<"three_end", JsonOfField(item.prizes.three_end)>>,
                                     <<"two_end", JsonOfField(item.prizes.two_end)>> >>)>>,
                 <<"lastUpdated", JsonOfField(item.lastUpdated)>> >>)

JsonOfArray(m, data) == JArr([i \in 1..Len(data) |-> JsonOfItem(m, data[i])])

HasMember(node, name) ==
  node.t = "obj" /\ \E i \in 1..Len(node.members) : node.members[i][1] = name

\* the last member of that name, as JSON.parse keeps it
Member(node, name) ==
  LET last == CHOOSE i \in 1..Len(node.members) :
                /\ node.members[i][1] = name
                /\ \A j \in (i + 1)..Len(node.members) : node.members[j][1] # name
  IN  node.members[last][2]

MemberNames(node) == { node.members[i][1] : i \in 1..Len(node.members) }

\* JSON.parse of well-formed text: the JavaScript value of a node
RECURSIVE ParseNode(_)
ParseNode(node) ==
  CASE node.t = "str"  -> node.s
    [] node.t = "num"  -> node.n
    [] node.t = "null" -> Null
    [] node.t = "arr"  -> [i \in 1..Len(node.items) |-> ParseNode(node.items[i])]
    [] node.t = "obj"  -> [k \in MemberNames(node) |-> ParseNode(Member(node, k))]

\* JavaScript truthiness of the value of a node
Truthy(node) ==
  CASE node.t = "str"  -> node.s # ""
    [] node.t = "num"  -> node.n # 0
    [] node.t = "null" -> FALSE
    [] OTHER           -> TRUE

-----------------------------------------------------------------------------
(* SnapshotStore                                                           *)

\* a loader that knows only the wrapped form: on a bare array parsedData.data
\* is undefined, reading .length of it throws, and the catch leaves []
loadExistingDataWrappedOnly(content) ==
  IF content.t \in {"absent", "unreadable", "garbage", "null"} THEN <<>>
  ELSE IF HasMember(content, "data") /\ Truthy(Member(content, "data"))
    THEN ParseNode(Member(content, "data"))
  ELSE <<>>

\* loadExistingData: the value of this.currentData after the call, given the
\* content of the file.  (JSON null makes parsedData.data throw a TypeError.)
loadExistingData(content) ==
  IF content.t \in {"absent", "unreadable", "garbage", "null"} THEN <<>>
  ELSE IF HasMember(content, "data") /\ Truthy(Member(content, "data"))
    THEN ParseNode(Member(content, "data"))
  ELSE ParseNode(content)

\* a writer that counts the records but stores none of them
dataToSaveNoRecords(m, data, now) ==
  JObj(<< <<"lastUpdated", JStr(now)>>,
          <<"recordCount", JNum(Len(data))>>,
          <<"data", JArr(<<>>)>> >>)

\* saveData: the text JSON.stringify(dataToSave, null, 2) handed to writeFile
dataToSave(m, data, now) ==
  JObj(<< <<"lastUpdated", JStr(now)>>,
          <<"recordCount", JNum(Len(data))>>,
          <<"data", JsonOfArray(m, data)>> >>)

\* the legacy form of the file: the bare array
BareFile(m, data) == JsonOfArray(m, data)

-----------------------------------------------------------------------------
(* A JavaScript value that is null or an array.                            *)

JSNull == [isNull |-> TRUE, items |-> <<>>]
Arr(items) == [isNull |-> FALSE, items |-> items]

-----------------------------------------------------------------------------
(* processNewData up to its first suspension: the ChangeSet it will        *)
(* return, the value of this.currentData it leaves, and whether it calls   *)
(* saveData(newData).                                                      *)

Processed(c, cur, saves) == [changes |-> c, currentData |-> cur, saves |-> saves]

\* a processNewData without the guard on a null or empty result
processNewDataNoGuard(m, cur, new) ==
  LET c == detectChanges(m, cur, new.items)
  IN  IF totalChanges(c) > 0
        THEN Processed(c, new.items, TRUE)
        ELSE Processed(c, cur, FALSE)

\* a processNewData that appends the fetched set to the snapshot
processNewDataMerge(m, cur, new) ==
  IF m = "lottery" /\ (new.isNull \/ Len(new.items) = 0)
    THEN Processed(NoChanges, cur, FALSE)
  ELSE LET c == detectChanges(m, cur, new.items)
       IN  IF totalChanges(c) > 0
             THEN Processed(c, cur \o new.items, TRUE)
             ELSE Processed(c, cur, FALSE)

\* a processNewData whose guard on a null or empty result holds for both managers
processNewDataGuarded(m, cur, new) ==
  IF new.isNull \/ Len(new.items) = 0
    THEN Processed(NoChanges, cur, FALSE)
  ELSE LET c == detectChanges(m, cur, new.items)
       IN  IF totalChanges(c) > 0
             THEN Processed(c, new.items, TRUE)
             ELSE Processed(c, cur, FALSE)

\* a processNewData that replaces the snapshot on every call
processNewDataAlways(m, cur, new) ==
  IF m = "lottery" /\ (new.isNull \/ Len(new.items) = 0)
    THEN Processed(NoChanges, cur, FALSE)
  ELSE Processed(detectChanges(m, cur, new.items), new.items, TRUE)

processNewData(m, cur, new) ==
  IF m = "lottery" /\ (new.isNull \/ Len(new.items) = 0)
    THEN Processed(NoChanges, cur, FALSE)
  ELSE LET c == detectChanges(m, cur, new.items)
       IN  IF totalChanges(c) > 0
             THEN Processed(c, new.items, TRUE)
             ELSE Processed(c, cur, FALSE)

-----------------------------------------------------------------------------
(* State after construction (the snapshot and the file apart), and the     *)
(* direct calls of the methods.                                            *)

\* Timeout objects are opaque, so the armed timers of a manager are told
\* apart only by whether this.timeoutId names them: held is 1 when the
\* Timeout that this.timeoutId holds is still armed, others counts the armed
\* timers that this.timeoutId no longer names.
NoTimer == "null"
Held == "Timeout"
Armed(held, others) == [held |-> held, others |-> others]

\* An activation of start() or of the timer callback of scheduleNextRun,
\* suspended at an await.  pc: "load" (readFile of loadExistingData), "fetch"
\* (the Fetcher), "wait" (the retryDelay timer), "save" (writeFile of
\* saveData(data)).  attempt is the loop variable of extractWithRetry;
\* fetches, waits, raised and nulls count what the cycle did so far: calls of
\* the Fetcher, retryDelay waits, attempts that raised, attempts that
\* returned null.
Task(pc, attempt, fetches, waits, raised, nulls, data) ==
  [pc |-> pc, attempt |-> attempt, fetches |-> fetches,
   waits |-> waits, raised |-> raised, nulls |-> nulls, data |-> data]

Idle == Task("idle", 0, 0, 0, 0, 0, <<>>)

\* What a step did: its kind, the manager, the counters of the activation
\* as the step left it, (for a signal) the managers that were running when
\* it arrived, and the fields of the manager to which the step gave a new
\* value.
Event(type, m, task) ==
  [type |-> type, m |-> m, attempt |-> task.attempt, fetches |-> task.fetches,
   waits |-> task.waits, raised |-> task.raised, nulls |-> task.nulls, running |-> {},
   changed |-> {}]

NoEvent == Event("none", "none", Idle)

NotLoaded == [done |-> FALSE, snap |-> <<>>]

NoCalls == [n |-> 0, last |-> "none", prev |-> "none", ret |-> NoChanges,
            before |-> <<>>, fileBefore |-> Absent, wrote |-> FALSE,
            loadedBare |-> NotLoaded, loadedWrapped |-> NotLoaded, delays |-> {}]

Constructed(mods) ==
  /\ imported = mods
  /\ isRunning = [m \in Managers |-> FALSE]
  /\ timeoutId = [m \in Managers |-> NoTimer]
  /\ timers = [m \in Managers |-> Armed(0, 0)]
  /\ tasks = [m \in Managers |-> EmptyBag]
  /\ exited = FALSE
  /\ ev = NoEvent

\* detectChanges(oldData, newData) called on the instance
CallDetect ==
  /\ ~changes.done
  /\ \E m \in imported :
       changes' = [done |-> TRUE, value |-> detectChanges(m, oldData, newData.items)]
  /\ UNCHANGED <<schedVars, oldData, newData, calls>>

InitDetect ==
  /\ \E m \in Managers :
       /\ Constructed({m})
       /\ currentData = [x \in Managers |-> <<>>]
       /\ oldData \in SeqsUpTo(Universe(m), MaxOld)
       /\ newData \in { Arr(s) : s \in SeqsUpTo(Universe(m), MaxNew) }
       /\ file = [x \in Managers |-> Absent]
  /\ changes = [done |-> FALSE, value |-> NoChanges]
  /\ calls = NoCalls

NextDetect == CallDetect

SpecDetect == InitDetect /\ [][NextDetect]_vars

-----------------------------------------------------------------------------
(* Direct, awaited calls of the stateful methods.  Nothing else runs       *)
(* between the call and its completion, so each is one step.               *)

\* what fs.writeFile(CONFIG.dataFile, text) can leave in the file: the text
\* (success), or on failure the old content or a truncated, unparsable file
WriteOutcomes(old, text) == {text, old, Garbage}

\* the times new Date() shows when saveData builds the wrapper
SaveTimes == {"t1"}

Called(op, m, ret, wrote) ==
  [calls EXCEPT !.n = @ + 1, !.last = op, !.prev = calls.last, !.ret = ret,
                !.before = currentData[m], !.fileBefore = file[m], !.wrote = wrote]

\* await processNewData(newData)
CallProcess ==
  /\ calls.n < MaxCalls
  /\ \E m \in imported :
       LET r == processNewData(m, currentData[m], newData)
       IN  /\ currentData' = [currentData EXCEPT ![m] = r.currentData]
           /\ IF r.saves
                THEN \E now \in Times :
                       \E w \in WriteOutcomes(file[m], dataToSave(m, newData.items, now)) :
                         file' = [file EXCEPT ![m] = w]
                ELSE file' = file
           /\ calls' = Called("process", m, r.changes, r.saves)
  /\ UNCHANGED <<imported, isRunning, timeoutId, timers, tasks, exited, ev,
                 oldData, newData, changes>>

InitProcess ==
  /\ \E m \in Managers :
       /\ Constructed({m})
       /\ oldData \in SeqsUpTo(SmallUniverse(m), MaxOld)
       /\ newData \in { Arr(s) : s \in SeqsUpTo(SmallUniverse(m), MaxNew) }
                        \cup (IF m = "lottery" THEN {JSNull} ELSE {})
       /\ currentData = [x \in Managers |-> IF x = m THEN oldData ELSE <<>>]
       /\ file \in { [x \in Managers |-> IF x = m THEN f ELSE Absent] :
                       f \in {BareFile(m, oldData), dataToSave(m, oldData, "t1")} }
  /\ changes = [done |-> FALSE, value |-> NoChanges]
  /\ calls = NoCalls

NextProcess == CallProcess

SpecProcess == InitProcess /\ [][NextProcess]_vars

\* await saveData(newData)
CallSave ==
  /\ calls.n < MaxCalls
  /\ \E m \in imported :
       \E now \in Times :
         \E w \in WriteOutcomes(file[m], dataToSave(m, newData.items, now)) :
           /\ file' = [file EXCEPT ![m] = w]
           /\ calls' = Called(IF w = dataToSave(m, newData.items, now)
                                THEN "saveOk" ELSE "saveFailed", m, NoChanges, TRUE)
  /\ UNCHANGED <<imported, currentData, isRunning, timeoutId, timers, tasks, exited, ev,
                 oldData, newData, changes>>

\* await loadExistingData()
CallLoad ==
  /\ calls.n < MaxCalls
  /\ \E m \in imported :
       LET snap == loadExistingData(file[m])
           c == Called("load", m, NoChanges, FALSE)
       IN  /\ currentData' = [currentData EXCEPT ![m] = snap]
           /\ calls' =
                IF file[m] = BareFile(m, newData.items)
                  THEN [c EXCEPT !.loadedBare = [done |-> TRUE, snap |-> snap]]
                ELSE IF \E t \in Times : file[m] = dataToSave(m, newData.items, t)
                  THEN [c EXCEPT !.loadedWrapped = [done |-> TRUE, snap |-> snap]]
                ELSE c
  /\ UNCHANGED <<imported, isRunning, timeoutId, timers, file, tasks, exited, ev,
                 oldData, newData, changes>>

InitStore ==
  /\ \E m \in Managers :
       /\ Constructed({m})
       /\ currentData = [x \in Managers |-> <<>>]
       /\ newData \in { Arr(s) : s \in SeqsUpTo(SmallUniverse(m), MaxNew) }
       /\ file \in { [x \in Managers |-> IF x = m THEN f ELSE Absent] :
                       f \in {Absent, Unreadable, Garbage, BareFile(m, newData.items)} }
  /\ oldData = <<>>
  /\ changes = [done |-> FALSE, value |-> NoChanges]
  /\ calls = NoCalls

NextStore == CallSave \/ CallLoad

SpecStore == InitStore /\ [][NextStore]_vars

-----------------------------------------------------------------------------
(* Properties of the ChangeDetector and of the SnapshotStore               *)

KeySet(m, data) == { identity(m, data[i]) : i \in 1..Len(data) }

\* the record a key maps to: the last one of that key in the sequence
LastOf(m, data, k) ==
  data[CHOOSE i \in 1..Len(data) :
         /\ identity(m, data[i]) = k
         /\ \A j \in (i + 1)..Len(data) : identity(m, data[j]) # k]

\* some allow-listed field of the two records differs
AllowListedDiffer(m, a, b) ==
  IF m = "stock"
    THEN \E f \in {"countryCode", "threeDigits", "twoDigits"} : a[f] # b[f]
    ELSE \E f \in {"firstPrize", "three_front", "three_end", "two_end"} :
           a.prizes[f] # b.prizes[f]

\* the two records differ at most in lastUpdated
SameButLastUpdated(a, b) ==
  [a EXCEPT !.lastUpdated = "t"] = [b EXCEPT !.lastUpdated = "t"]

ExactlyOncePerKey(keys, expected) ==
  /\ { keys[i] : i \in 1..Len(keys) } = expected
  /\ Len(keys) = Cardinality(expected)

\* C1: detectChanges(old, new).added holds exactly the keys of new absent from
\* old, .removed exactly the keys of old absent from new, .updated exactly the
\* keys present in both whose allow-listed fields differ, each updated entry
\* carrying the old and the new record of its key.
C1_DetectChangesExact ==
  changes.done =>
    \A m \in imported :
      LET c == changes.value
          old == oldData
          new == newData.items
          both == KeySet(m, old) \cap KeySet(m, new)
      IN  /\ ExactlyOncePerKey([i \in 1..Len(c.added) |-> identity(m, c.added[i])],
                               KeySet(m, new) \ KeySet(m, old))
          /\ ExactlyOncePerKey([i \in 1..Len(c.removed) |-> identity(m, c.removed[i])],
                               KeySet(m, old) \ KeySet(m, new))
          /\ ExactlyOncePerKey([i \in 1..Len(c.updated) |-> c.updated[i].key],
                               { k \in both :
                                   AllowListedDiffer(m, LastOf(m, old, k), LastOf(m, new, k)) })
          /\ \A i \in 1..Len(c.updated) :
               /\ c.updated[i].old = LastOf(m, old, c.updated[i].key)
               /\ c.updated[i].new = LastOf(m, new, c.updated[i].key)

\* one call that reports an added, an updated and a removed record at once
C1_Witness ==
  /\ changes.done
  /\ Len(changes.value.added) > 0
  /\ Len(changes.value.updated) > 0
  /\ Len(changes.value.removed) > 0

\* new has the keys of old and every record differs from its counterparts of
\* the same key at most in lastUpdated
SameContent(m, old, new) ==
  /\ KeySet(m, old) = KeySet(m, new)
  /\ \A i \in 1..Len(old) : \A j \in 1..Len(new) :
       identity(m, old[i]) = identity(m, new[j]) => SameButLastUpdated(old[i], new[j])

\* the call of processNewData just made changed neither snapshot nor file
LastCallChangedNothing(m) ==
  /\ calls.ret = NoChanges
  /\ ~calls.wrote
  /\ currentData[m] = calls.before
  /\ file[m] = calls.fileBefore

\* C2: when new has the keys of the snapshot and its records differ from the
\* snapshot's at most in lastUpdated, processNewData(new) finds no added,
\* updated or removed record, keeps the in-memory snapshot and does not write
\* the file.
C2_TimestampOnlyIsNoChange ==
  \A m \in imported :
    (/\ calls.last = "process"
     /\ ~newData.isNull
     /\ SameContent(m, calls.before, newData.items))
    => LastCallChangedNothing(m)

\* a non-empty set fetched again with nothing but a newer timestamp
C2_Witness ==
  \E m \in imported :
    /\ calls.last = "process"
    /\ ~newData.isNull
    /\ Len(newData.items) > 0
    /\ SameContent(m, calls.before, newData.items)
    /\ calls.before # newData.items

\* C3: of two calls of processNewData(new) in a row, the second returns an
\* empty ChangeSet and changes neither the in-memory snapshot nor the file.
C3_ProcessNewDataIdempotent ==
  \A m \in imported :
    (calls.last = "process" /\ calls.prev = "process") => LastCallChangedNothing(m)

\* the second of two calls, the first of which replaced a non-empty snapshot
C3_Witness ==
  \E m \in imported :
    /\ calls.n = 2
    /\ calls.last = "process"
    /\ calls.prev = "process"
    /\ oldData # <<>>
    /\ currentData[m] # oldData

\* C9: a successful saveData(records) followed by loadExistingData() leaves
\* records, the empty sequence included, as the in-memory snapshot.
C9_SaveLoadRoundTrip ==
  \A m \in imported :
    (calls.last = "load" /\ calls.prev = "saveOk") => currentData[m] = newData.items

\* two records saved and loaded back
C9_Witness ==
  /\ calls.last = "load"
  /\ calls.prev = "saveOk"
  /\ Len(newData.items) = 2

\* C10: loadExistingData() on the bare array R and on the wrapped object
\* {lastUpdated, recordCount, data: R} yield the same in-memory snapshot.
C10_BareLoadsLikeWrapped ==
  (calls.loadedBare.done /\ calls.loadedWrapped.done)
    => calls.loadedBare.snap = calls.loadedWrapped.snap

\* both forms of a file of two records have been loaded
C10_Witness ==
  /\ calls.loadedBare.done
  /\ calls.loadedWrapped.done
  /\ Len(newData.items) = 2
  /\ Len(calls.loadedBare.snap) = 2

-----------------------------------------------------------------------------
(* Fetchers.  What the network returns is the input of a fetch attempt:    *)
(* a page for the stock scraper, a response for the lottery API.           *)

\* A row of the table: the number of its td cells, the text after
\* 'flag-icon-' in the class of its flag icon ("" without one), and the
\* trimmed text of cells 1, 2 and 3.
Row(cells, flag, name, three, two) ==
  [cells |-> cells, flag |-> flag, name |-> name, three |-> three, two |-> two]

\* error: launch, goto or waitForSelector('div.card') raised;
\* target: a card whose header holds the expected text; table: its table
Page(error, target, table, rows) ==
  [error |-> error, target |-> target, table |-> table, rows |-> rows,
   prizes |-> <<>>, drawDate |-> Null]

StockPages ==
  { Page(TRUE, FALSE, FALSE, <<>>),
    Page(FALSE, FALSE, FALSE, <<>>),
    Page(FALSE, TRUE, FALSE, <<>>),
    Page(FALSE, TRUE, TRUE, << Row(4, "us", "A", "111", "11") >>),
    Page(FALSE, TRUE, TRUE, << Row(4, "us", "A", "222", "11"), Row(3, "", "B", "111", "") >>),
    Page(FALSE, TRUE, TRUE, << Row(4, "us", "A", "111", "11"), Row(4, "", "", "0", "0"),
                               Row(5, "us", "B", "111", "11") >>),
    Page(FALSE, TRUE, TRUE, << Row(4, "us", "A", "111", "11"), Row(4, "us", "A", "222", "11") >>) }

KeptRow(row) == row.cells >= 4 /\ row.name # ""

\* extractStockResults on a page that loaded: the value of page.evaluate
extractStockResults(page, now) ==
  IF ~page.target \/ ~page.table THEN <<>>
  ELSE LET kept == SelectSeq(page.rows, KeptRow)
       IN  [i \in 1..Len(kept) |->
              StockRec(kept[i].flag, kept[i].name, kept[i].three, kept[i].two, now)]

\* error: fetch() or response.json() raised; ok: response.ok; hasResult:
\* data.response is present; prizes, running: the .number of the entries of
\* result.prizes and result.runningNumbers; drawDate: result.drawDate or Null
Response(error, ok, hasResult, prizes, running, drawDate) ==
  [error |-> error, ok |-> ok, hasResult |-> hasResult, prizes |-> prizes,
   running |-> running, drawDate |-> drawDate, rows |-> <<>>]

ApiResponses ==
  { Response(TRUE, FALSE, FALSE, <<>>, <<>>, Null),
    Response(FALSE, FALSE, FALSE, <<>>, <<>>, Null),
    Response(FALSE, TRUE, TRUE, <<>>, <<>>, "d1"),
    Response(FALSE, TRUE, TRUE, <<"100001">>, <<"101", "201", "01">>, "d1"),
    Response(FALSE, TRUE, TRUE, <<"100002">>, <<"101", "201", "01">>, "d1"),
    Response(FALSE, TRUE, TRUE, <<"100001">>, <<>>, "d2") }

\* seq[i]?.number || null
NumberOrNull(seq, i) == IF i <= Len(seq) /\ seq[i] # "" THEN seq[i] ELSE Null

\* fetchLottoData on a response that arrived: null or the record
fetchLottoData(resp, now) ==
  IF ~resp.ok THEN JSNull
  ELSE IF ~resp.hasResult \/ Len(resp.prizes) = 0 THEN JSNull
  ELSE Arr(<< LottoRec(IF resp.drawDate = Null THEN now ELSE resp.drawDate,
                       Prizes(NumberOrNull(resp.prizes, 1),
                              NumberOrNull(resp.running, 1),
                              NumberOrNull(resp.running, 2),
                              NumberOrNull(resp.running, 3)),
                       now) >>)

\* The fetch attempts of the runs: what the network returns and the time it
\* does.  The later time comes with the content of an earlier fetch, so that
\* a set is fetched again with nothing but its timestamps changed.
Repeated(input) ==
  \/ input.rows = << Row(4, "us", "A", "111", "11") >>
  \/ input.prizes = <<"100001">> /\ input.drawDate = "d1"

FetchInputs(m) ==
  { <<input, now>> \in (IF m = "stock" THEN StockPages ELSE ApiResponses) \X Times :
      now = "t2" => ~input.error /\ Repeated(input) }

\* The outcomes of one fetch attempt: it raised, or the value it returned
FetchOutcomes(m) ==
  { [raised |-> in[1].error,
     value |-> IF in[1].error THEN JSNull
               ELSE IF m = "stock" THEN Arr(extractStockResults(in[1], in[2]))
               ELSE fetchLottoData(in[1], in[2])] : in \in FetchInputs(m) }

-----------------------------------------------------------------------------
(* Retry wrapper: what extractWithRetry does with the outcome of attempt   *)
(* number `attempt`.                                                       *)

\* a wrapper that gives up one attempt early
afterRaiseEarly(attempt) == IF attempt >= maxRetries - 1 THEN "throw" ELSE "wait"

\* the catch block: rethrow on the last attempt, else wait retryDelay
afterRaise(attempt) == IF attempt = maxRetries THEN "throw" ELSE "wait"

\* a wrapper that returns a null result at once
afterReturnAsIs(m, attempt, value) == "return"

\* the try block: the stock wrapper returns whatever it got; the lottery
\* wrapper returns [result] only if result is truthy, else the loop goes on
\* to the next attempt, and `return null` follows the loop
afterReturn(m, attempt, value) ==
  IF m = "stock" \/ ~value.isNull THEN "return"
  ELSE IF attempt < maxRetries THEN "next"
  ELSE "return"

-----------------------------------------------------------------------------
(* Where errors stop.  Each of the three methods wraps its body in a       *)
(* try / catch whose catch block only logs: whether the promise the method *)
(* returns rejects, given that its body failed.                            *)

\* a loader that catches only ENOENT
loadExistingDataRejectsUnlessENOENT(content) ==
  content.t \in {"unreadable", "garbage", "null"}

\* loadExistingData: both arms of its catch log and assign []
loadExistingDataRejects(content) == FALSE

\* a saveData without its try / catch
saveDataRejectsOnFailure(failed) == failed

\* saveData: the catch logs the error of writeFile
saveDataRejects(failed) == FALSE

\* a runScrapingCycle without its try / catch
runScrapingCycleRejectsOnThrow(thrown) == thrown

\* runScrapingCycle: the catch logs the error of extractWithRetry or
\* processNewData
runScrapingCycleRejects(thrown) == FALSE

-----------------------------------------------------------------------------
(* Scheduler.  One step is what runs between two suspensions of the event  *)
(* loop: a call of start() or stop(), or the continuation of an await.     *)

\* the fields of manager m that these values change
Changed(m, snap, running, tid, armed, content, activations) ==
  (IF snap # currentData[m] THEN {"currentData"} ELSE {})
    \cup (IF running # isRunning[m] THEN {"isRunning"} ELSE {})
    \cup (IF tid # timeoutId[m] THEN {"timeoutId"} ELSE {})
    \cup (IF armed # timers[m] THEN {"timers"} ELSE {})
    \cup (IF content # file[m] THEN {"file"} ELSE {})
    \cup (IF activations # tasks[m] THEN {"tasks"} ELSE {})

Update(m, snap, running, tid, armed, content, activations, event) ==
  /\ currentData' = [currentData EXCEPT ![m] = snap]
  /\ isRunning' = [isRunning EXCEPT ![m] = running]
  /\ timeoutId' = [timeoutId EXCEPT ![m] = tid]
  /\ timers' = [timers EXCEPT ![m] = armed]
  /\ file' = [file EXCEPT ![m] = content]
  /\ tasks' = [tasks EXCEPT ![m] = activations]
  /\ ev' = [event EXCEPT !.changed = Changed(m, snap, running, tid, armed, content, activations)]
  /\ UNCHANGED <<imported, exited, unitVars>>

Suspended(m, pc) == { t \in BagToSet(tasks[m]) : t.pc = pc }

Without(m, t) == tasks[m] (-) SetToBag({t})

Replaced(m, t, t2) == Without(m, t) (+) SetToBag({t2})

\* activations in flight plus timers armed
ArmedTimers(m) == timers[m].held + timers[m].others

Chains(m) == BagCardinality(tasks[m]) + ArmedTimers(m)

\* a scheduleNextRun that does not look at isRunning
scheduleNextRunAlways(m) ==
  [timeoutId |-> Held, timers |-> Armed(1, ArmedTimers(m))]

\* a scheduleNextRun that arms nothing
scheduleNextRunNever(m) ==
  [timeoutId |-> timeoutId[m], timers |-> timers[m]]

\* scheduleNextRun: this.timeoutId and the armed timers it leaves.  The
\* Timeout that this.timeoutId held, if still armed, stays armed.
scheduleNextRun(m) ==
  IF ~isRunning[m]
    THEN [timeoutId |-> timeoutId[m], timers |-> timers[m]]
    ELSE [timeoutId |-> Held, timers |-> Armed(1, ArmedTimers(m))]

\* runScrapingCycle returns (normally, or after its catch) with the snapshot
\* snap; its caller, start() or the timer callback, calls scheduleNextRun()
EndCycle(m, t, t2, snap, content, type) ==
  Update(m, snap, isRunning[m], scheduleNextRun(m).timeoutId, scheduleNextRun(m).timers,
         content, Without(m, t), Event(type, m, t2))

\* the promise of runScrapingCycle rejects: so does the activation that
\* awaits it, start() or the timer callback, before its scheduleNextRun()
Rejected(m, t, t2, snap, content, type) ==
  Update(m, snap, isRunning[m], timeoutId[m], timers[m],
         content, Without(m, t), Event(type, m, t2))

\* runScrapingCycle calls extractWithRetry: attempt 1 calls the Fetcher
FirstAttempt == Task("fetch", 1, 1, 0, 0, 0, <<>>)

\* a start() without its isRunning test
StartUnguarded(m) ==
  /\ ~exited
  /\ Chains(m) < MaxTasks
  /\ LET t == Task("load", 0, 0, 0, 0, 0, <<>>)
     IN  Update(m, currentData[m], TRUE, timeoutId[m], timers[m], file[m],
                tasks[m] (+) SetToBag({t}), Event("start", m, t))

\* start()
Start(m) ==
  /\ ~exited
  /\ Chains(m) < MaxTasks
  /\ IF isRunning[m]
       THEN Update(m, currentData[m], TRUE, timeoutId[m], timers[m], file[m], tasks[m],
                   Event("startIgnored", m, Idle))
       ELSE LET t == Task("load", 0, 0, 0, 0, 0, <<>>)
            IN  Update(m, currentData[m], TRUE, timeoutId[m], timers[m], file[m],
                       tasks[m] (+) SetToBag({t}), Event("start", m, t))

\* what stop() leaves of this.isRunning, this.timeoutId and the armed timers
stop(m) ==
  IF ~isRunning[m]
    THEN [isRunning |-> FALSE, timeoutId |-> timeoutId[m], timers |-> timers[m]]
    ELSE [isRunning |-> FALSE, timeoutId |-> NoTimer,
          timers |-> IF timeoutId[m] # NoTimer THEN Armed(0, timers[m].others)
                                               ELSE timers[m]]

\* stop()
Stop(m) ==
  /\ ~exited
  /\ Update(m, currentData[m], stop(m).isRunning, stop(m).timeoutId, stop(m).timers,
            file[m], tasks[m],
            Event(IF isRunning[m] THEN "stop" ELSE "stopIgnored", m, Idle))

\* start(): loadExistingData() completes; runScrapingCycle() is called
LoadDone(m) ==
  /\ ~exited
  /\ \E t \in Suspended(m, "load") :
       IF loadExistingDataRejects(file[m])
         THEN Rejected(m, t, Idle, currentData[m], file[m], "startFailed")
         ELSE Update(m, loadExistingData(file[m]), isRunning[m], timeoutId[m], timers[m],
                     file[m], Replaced(m, t, FirstAttempt), Event("initialCycle", m, Idle))

\* the armed timers left when one of them fires
AfterFiring(m) ==
  (IF timers[m].held = 1 THEN {Armed(0, timers[m].others)} ELSE {})
    \cup (IF timers[m].others > 0 THEN {Armed(timers[m].held, timers[m].others - 1)} ELSE {})

\* the timer callback of scheduleNextRun
TimerFire(m) ==
  /\ ~exited
  /\ \E left \in AfterFiring(m) :
       IF isRunning[m]
         THEN Update(m, currentData[m], isRunning[m], timeoutId[m], left,
                     file[m], tasks[m] (+) SetToBag({FirstAttempt}),
                     Event("timerCycle", m, Idle))
         ELSE Update(m, currentData[m], isRunning[m], timeoutId[m], left,
                     file[m], tasks[m], Event("timerIgnored", m, Idle))

\* extractWithRetry: the Fetcher of this attempt raises or returns
FetchDone(m) ==
  /\ ~exited
  /\ \E t \in Suspended(m, "fetch") : \E o \in FetchOutcomes(m) :
       IF o.raised
         THEN LET t2 == [t EXCEPT !.raised = @ + 1]
              IN  IF afterRaise(t.attempt) = "wait"
                    THEN LET t3 == [t2 EXCEPT !.pc = "wait", !.waits = @ + 1]
                         IN  Update(m, currentData[m], isRunning[m], timeoutId[m], timers[m],
                                    file[m], Replaced(m, t, t3), Event("attemptFailed", m, Idle))
                    ELSE IF runScrapingCycleRejects(TRUE)
                      THEN Rejected(m, t, t2, currentData[m], file[m], "cycleFailed")
                      ELSE EndCycle(m, t, t2, currentData[m], file[m], "cycleFailed")
         ELSE LET t2 == [t EXCEPT !.nulls = IF o.value.isNull THEN @ + 1 ELSE @]
              IN  IF afterReturn(m, t.attempt, o.value) = "next"
                    THEN LET t3 == [t2 EXCEPT !.attempt = @ + 1, !.fetches = @ + 1]
                         IN  Update(m, currentData[m], isRunning[m], timeoutId[m], timers[m],
                                    file[m], Replaced(m, t, t3), Event("nextAttempt", m, t3))
                    ELSE LET r == processNewData(m, currentData[m], o.value)
                             t3 == Task("save", 0, 0, 0, 0, 0, o.value.items)
                             t4 == IF o.value.isNull THEN t2 ELSE Idle
                         IN  IF r.saves
                               THEN Update(m, r.currentData, isRunning[m], timeoutId[m],
                                           timers[m], file[m], Replaced(m, t, t3),
                                           Event(IF o.value.isNull THEN "noData" ELSE "saving",
                                                 m, t4))
                               ELSE EndCycle(m, t, t4, r.currentData, file[m],
                                             IF o.value.isNull THEN "noData" ELSE "unchanged")

\* extractWithRetry: the retryDelay timer fires; the next attempt starts
WaitDone(m) ==
  /\ ~exited
  /\ \E t \in Suspended(m, "wait") :
       LET t2 == [t EXCEPT !.pc = "fetch", !.attempt = @ + 1, !.fetches = @ + 1]
       IN  Update(m, currentData[m], isRunning[m], timeoutId[m], timers[m], file[m],
                  Replaced(m, t, t2), Event("retry", m, Idle))

\* saveData: writeFile completes, or fails (here: after it truncated the
\* file); the failure is only logged.  The event tells in `raised` whether
\* an error reached the cycle.
SaveDone(m) ==
  /\ ~exited
  /\ \E t \in Suspended(m, "save") : \E now \in SaveTimes :
       \E w \in {dataToSave(m, t.data, now), Garbage} :
         LET failed == w # dataToSave(m, t.data, now)
             type == IF failed THEN "saveFailed" ELSE "saved"
         IN  IF ~saveDataRejects(failed)
               THEN EndCycle(m, t, Idle, currentData[m], w, type)
             ELSE IF runScrapingCycleRejects(TRUE)
               THEN Rejected(m, t, [Idle EXCEPT !.raised = 1], currentData[m], w, type)
             ELSE EndCycle(m, t, [Idle EXCEPT !.raised = 1], currentData[m], w, type)

-----------------------------------------------------------------------------
(* Process: the signal handlers and the main program                       *)

\* the modules in the order the main program imports them, which is the
\* order their SIGINT / SIGTERM listeners are registered in
ImportOrder == <<"stock", "lottery">>

IsImported(m) == m \in imported

\* each module's listener stops its own manager, then calls process.exit(0)
Listeners ==
  LET mods == SelectSeq(ImportOrder, IsImported)
  IN  [i \in 1..Len(mods) |-> [stops |-> mods[i], exits |-> TRUE]]

\* the listeners that run: emit calls them in order, process.exit never returns
RECURSIVE RunUntilExit(_)
RunUntilExit(ls) ==
  IF ls = <<>> THEN <<>>
  ELSE IF Head(ls).exits THEN <<Head(ls)>>
  ELSE <<Head(ls)>> \o RunUntilExit(Tail(ls))

\* SIGINT or SIGTERM arrives (without a listener the process just ends)
Signal ==
  /\ ~exited
  /\ LET ran == RunUntilExit(Listeners)
         stopped == { ran[i].stops : i \in 1..Len(ran) }
     IN  /\ isRunning' = [m \in Managers |-> IF m \in stopped THEN stop(m).isRunning
                                                               ELSE isRunning[m]]
         /\ timeoutId' = [m \in Managers |-> IF m \in stopped THEN stop(m).timeoutId
                                                               ELSE timeoutId[m]]
         /\ timers' = [m \in Managers |-> IF m \in stopped THEN stop(m).timers
                                                            ELSE timers[m]]
         /\ ev' = [Event("signal", "none", Idle) EXCEPT
                     !.running = { m \in imported : isRunning[m] }]
  /\ exited' = TRUE
  /\ UNCHANGED <<imported, currentData, file, tasks, unitVars>>

\* the main program: both modules are evaluated, then
\* await Promise.all([stockManager.start(), lotteryManager.start()])
Main ==
  /\ ~exited
  /\ imported = {}
  /\ imported' = Managers
  /\ isRunning' = [m \in Managers |-> TRUE]
  /\ tasks' = [m \in Managers |-> SetToBag({Task("load", 0, 0, 0, 0, 0, <<>>)})]
  /\ ev' = Event("main", "none", Idle)
  /\ UNCHANGED <<currentData, timeoutId, timers, file, exited, unitVars>>

\* a snapshot of an earlier run: one record, of a key the fetches may drop
EarlierSnapshot(m) == << CHOOSE r \in SmallUniverse(m) : identity(m, r) \in {"B", "d2"} >>

\* the snapshot files a process can find
InitFiles(m) ==
  { Absent, Unreadable, Garbage,
    BareFile(m, EarlierSnapshot(m)), dataToSave(m, EarlierSnapshot(m), "t1") }

\* the snapshot files the runs of the main program start from
MainFiles(m) == { Absent, dataToSave(m, EarlierSnapshot(m), "t1") }

NoUnitCalls ==
  /\ oldData = <<>>
  /\ newData = JSNull
  /\ changes = [done |-> FALSE, value |-> NoChanges]
  /\ calls = NoCalls

\* one module imported by a host that calls start() and stop() as it likes
Init ==
  /\ \E m \in Managers :
       /\ Constructed({m})
       /\ file \in { [x \in Managers |-> IF x = m THEN f ELSE Absent] : f \in InitFiles(m) }
  /\ currentData = [x \in Managers |-> <<>>]
  /\ NoUnitCalls

Next ==
  \/ \E m \in imported : Start(m)
  \/ \E m \in imported : Stop(m)
  \/ \E m \in imported : LoadDone(m)
  \/ \E m \in imported : TimerFire(m)
  \/ \E m \in imported : FetchDone(m)
  \/ \E m \in imported : WaitDone(m)
  \/ \E m \in imported : SaveDone(m)

Spec == Init /\ [][Next]_vars

\* one module imported by a host that calls start() and never stop(); every
\* pending promise settles and every armed timer fires
NextLive ==
  \/ \E m \in imported : Start(m)
  \/ \E m \in imported : LoadDone(m)
  \/ \E m \in imported : TimerFire(m)
  \/ \E m \in imported : FetchDone(m)
  \/ \E m \in imported : WaitDone(m)
  \/ \E m \in imported : SaveDone(m)

Settling ==
  /\ WF_vars(\E m \in imported : LoadDone(m))
  /\ WF_vars(\E m \in imported : TimerFire(m))
  /\ WF_vars(\E m \in imported : FetchDone(m))
  /\ WF_vars(\E m \in imported : WaitDone(m))
  /\ WF_vars(\E m \in imported : SaveDone(m))

SpecLive == Init /\ [][NextLive]_vars /\ Settling

\* the main program from its first statement to the end of the process
InitMain ==
  /\ Constructed({})
  /\ currentData = [x \in Managers |-> <<>>]
  /\ file \in { [m \in Managers |-> IF m = "stock" THEN fs ELSE fl] :
                  fs \in MainFiles("stock"), fl \in MainFiles("lottery") }
  /\ NoUnitCalls

NextMain ==
  \/ Main
  \/ \E m \in imported : LoadDone(m)
  \/ \E m \in imported : TimerFire(m)
  \/ \E m \in imported : FetchDone(m)
  \/ \E m \in imported : WaitDone(m)
  \/ \E m \in imported : SaveDone(m)
  \/ Signal

SpecMain == InitMain /\ [][NextMain]_vars

-----------------------------------------------------------------------------
(* Properties of the retry wrapper and of the schedulers                   *)

InFlight(m) == BagToSet(tasks[m])

\* the activations that are inside runScrapingCycle
CyclesInFlight(m) ==
  BagCardinality(tasks[m]) - CopiesIn(Task("load", 0, 0, 0, 0, 0, <<>>), tasks[m])

\* C4: retry bound.  While every attempt of a cycle has raised, each failure
\* before the maxRetries-th was followed by one retryDelay wait and the
\* wrapper is still retrying; the cycle fails on the raise of attempt
\* maxRetries, after exactly maxRetries calls of the Fetcher and
\* maxRetries - 1 waits, and no activation outlives maxRetries raises.
C4_RetryBound ==
  /\ \A m \in Managers : \A t \in InFlight(m) :
       /\ t.raised < maxRetries
       /\ t.pc = "wait" /\ t.raised = t.fetches =>
            t.waits = t.raised /\ t.fetches < maxRetries
       /\ t.pc = "fetch" /\ t.raised = t.fetches - 1 =>
            t.waits = t.raised /\ t.fetches <= maxRetries
  /\ ev.type = "cycleFailed" /\ ev.raised = ev.fetches =>
       /\ ev.fetches = maxRetries
       /\ ev.waits = maxRetries - 1

\* C4: a cycle has failed after all its attempts raised
C4_Witness ==
  /\ ev.type = "cycleFailed"
  /\ ev.raised = maxRetries
  /\ ev.fetches = maxRetries
  /\ ev.waits = maxRetries - 1

C6_OneCycleInFlight ==
  \A m \in Managers : CyclesInFlight(m) <= 1

\* C7 as stated: a cycle begins only in a scheduler that is Running, that
\* is, one on which stop() was not called since the last start()
C7_NoCycleBeginsAfterStop ==
  ev.type \in {"initialCycle", "timerCycle"} => isRunning[ev.m]

\* C8 as stated: when the process has exited on a signal that found both
\* schedulers Running, both are Stopped and neither has a timer pending
C8_AllStoppedBeforeExit ==
  exited /\ ev.type = "signal" /\ ev.running = Managers =>
    \A m \in Managers :
      /\ ~isRunning[m]
      /\ timeoutId[m] = NoTimer
      /\ timers[m].held = 0

-----------------------------------------------------------------------------
(* Properties of the cycle: what each kind of step changes                 *)

\* the steps that end a cycle
CycleEnds == {"cycleFailed", "noData", "unchanged", "saved", "saveFailed"}

\* the step just taken ended a cycle and went on to scheduleNextRun(): the
\* next timer is armed if the scheduler is Running, nothing is armed if not
WentOnToSchedule ==
  /\ "tasks" \in ev.changed
  /\ isRunning[ev.m] =>
       /\ "timers" \in ev.changed
       /\ timeoutId[ev.m] = Held
       /\ timers[ev.m].held = 1
  /\ ~isRunning[ev.m] => ev.changed \cap {"timers", "timeoutId"} = {}

\* C11: the attempts and waits of a cycle change nothing but the activation
\* itself, and the step in which the fetch exhausts its retries changes
\* neither the in-memory snapshot nor the file nor isRunning; the error stops
\* in runScrapingCycle, whose caller goes on to scheduleNextRun().
C11_CycleFailureIsContained ==
  /\ ev.type \in {"attemptFailed", "retry"} => ev.changed = {"tasks"}
  /\ ev.type = "cycleFailed" =>
       /\ ev.changed \cap {"currentData", "file", "isRunning"} = {}
       /\ WentOnToSchedule

\* C11: a cycle failed in a Running scheduler that holds a snapshot
C11_Witness ==
  /\ ev.type = "cycleFailed"
  /\ ev.raised = maxRetries
  /\ isRunning[ev.m]
  /\ currentData[ev.m] # <<>>

C13_RepeatedStartStopChangeNothing ==
  /\ (ev.type \in {"start", "startIgnored"} /\ "isRunning" \notin ev.changed) =>
       ev.changed = {}
  /\ (ev.type \in {"stop", "stopIgnored"} /\ "isRunning" \notin ev.changed) =>
       ev.changed = {}

\* C13: start() was called while an earlier start() was awaiting its load
C13_Witness ==
  /\ ev.type = "startIgnored"
  /\ Suspended(ev.m, "load") # {}

\* C14: when start()'s load finds the file missing, unreadable or corrupt,
\* loadExistingData raises nothing, the in-memory snapshot is empty and the
\* initial cycle makes its first attempt; every cycle that ends goes on to
\* scheduleNextRun().
C14_LoadNeverFailsStartup ==
  /\ (/\ ev.type \in {"initialCycle", "startFailed"}
      /\ file[ev.m].t \in {"absent", "unreadable", "garbage"}) =>
       /\ ev.type = "initialCycle"
       /\ currentData[ev.m] = <<>>
       /\ FirstAttempt \in InFlight(ev.m)
  /\ ev.type \in CycleEnds => WentOnToSchedule

\* C14: the initial cycle began after the load of a corrupt file
C14_Witness ==
  /\ ev.type = "initialCycle"
  /\ file[ev.m] = Garbage
  /\ isRunning[ev.m]

\* C15: the step that begins a save has made the fetched set the in-memory
\* snapshot; the step in which the write fails raises nothing to the cycle,
\* leaves the in-memory snapshot alone, ends the cycle and goes on to
\* scheduleNextRun().
C15_SaveFailureIsSwallowed ==
  /\ ev.type = "saving" =>
       \E t \in Suspended(ev.m, "save") : t.data = currentData[ev.m]
  /\ ev.type = "saveFailed" =>
       /\ ev.raised = 0
       /\ "currentData" \notin ev.changed
       /\ WentOnToSchedule

\* C15: a write failed in a Running scheduler
C15_Witness ==
  /\ ev.type = "saveFailed"
  /\ isRunning[ev.m]
  /\ currentData[ev.m] # <<>>
  /\ timers[ev.m].held = 1

\* C16: the in-memory snapshot gets a new value only when a load completes
\* or when a cycle found changes, and then it is the whole fetched set; the
\* file gets new content only from the save of such a cycle; a cycle that
\* ends unchanged, without data or failed leaves both alone.
C16_SnapshotReplacedOnlyOnChange ==
  /\ "currentData" \in ev.changed => ev.type \in {"initialCycle", "saving"}
  /\ "file" \in ev.changed => ev.type \in {"saved", "saveFailed"}
  /\ ev.type = "saving" =>
       /\ "currentData" \in ev.changed
       /\ \E t \in Suspended(ev.m, "save") : t.data = currentData[ev.m]
  /\ ev.type \in {"unchanged", "noData", "cycleFailed"} =>
       ev.changed \cap {"currentData", "file"} = {}

\* C16: a cycle replaced a non-empty snapshot by a fetched set of two records
C16_Witness ==
  /\ ev.type = "saving"
  /\ Len(currentData[ev.m]) = 2
  /\ file[ev.m] \notin {Absent, Unreadable, Garbage}

\* C18 as stated: when stop() has returned on a Running scheduler, no timer
\* of that scheduler is armed
C18_NoTimerAfterStop ==
  ev.type = "stop" => ArmedTimers(ev.m) = 0

\* C19 as stated: the in-memory snapshot holds at most one record per key
C19_OneRecordPerKey ==
  \A m \in Managers : Cardinality(KeySet(m, currentData[m])) = Len(currentData[m])

\* C20: stop() removes no activation and touches neither snapshot nor file;
\* when stop() has returned, the continuation of every activation that is
\* suspended at its fetch, its retry wait or its save can still run; a cycle
\* that ends while the scheduler is Stopped arms no timer.
C20_InFlightCycleSurvivesStop ==
  /\ ev.type \in {"stop", "stopIgnored"} =>
       ev.changed \cap {"tasks", "currentData", "file"} = {}
  /\ \A m \in imported : ev.type = "stop" =>
       /\ Suspended(m, "fetch") # {} => ENABLED FetchDone(m)
       /\ Suspended(m, "wait") # {} => ENABLED WaitDone(m)
       /\ Suspended(m, "save") # {} => ENABLED SaveDone(m)
  /\ (ev.type \in CycleEnds /\ ~isRunning[ev.m]) =>
       ev.changed \cap {"timers", "timeoutId", "isRunning"} = {}

\* C20: a cycle wrote the file of a scheduler that was Stopped
C20_Witness ==
  /\ ev.type = "saved"
  /\ ~isRunning[ev.m]
  /\ "file" \in ev.changed
  /\ timeoutId[ev.m] = NoTimer

-----------------------------------------------------------------------------
(* Liveness of a scheduler that is never stopped                           *)

CycleBegins(m) == ev.m = m /\ ev.type \in {"initialCycle", "timerCycle"}

CycleEnded(m) == ev.m = m /\ ev.type \in CycleEnds

\* C17: in a scheduler that was started and is never stopped, whose loads,
\* fetch attempts, retry waits and saves all settle, a cycle begins again and
\* again; every cycle that ends, changed, unchanged or failed, leaves a timer
\* armed, and the next cycle begins from that timer.
C17_CyclesRunForever ==
  \A m \in Managers :
    /\ [](isRunning[m] => <>CycleBegins(m))
    /\ [](CycleBegins(m) => <>CycleEnded(m))
    /\ [](CycleEnded(m) => timers[m].held = 1 /\ timeoutId[m] = Held)
    /\ [](CycleEnded(m) => <>(ev.m = m /\ ev.type = "timerCycle"))

\* C17: a cycle began from the timer that the cycle before it had armed
C17_Witness ==
  /\ ev.type = "timerCycle"
  /\ isRunning[ev.m]
  /\ timers[ev.m] = Armed(0, 0)

-----------------------------------------------------------------------------
(* The snapshot file against the in-memory snapshot                        *)

\* a cycle of the scheduler has just ended, nothing of it is in flight, and
\* its file holds a snapshot: the load that start() made read a well-formed
\* file or the last save wrote one (a save that fails leaves no snapshot)
AtRestOnSnapshot ==
  /\ ev.type \in CycleEnds
  /\ tasks[ev.m] = EmptyBag
  /\ file[ev.m] \notin {Absent, Unreadable, Garbage}

\* C22 as stated: whenever a scheduler has no load, cycle or save in flight
\* and its most recent file operation succeeded, the record data in its
\* snapshot file equals this.currentData
C22_FileMatchesMemory ==
  AtRestOnSnapshot => loadExistingData(file[ev.m]) = currentData[ev.m]

-----------------------------------------------------------------------------
(* One cycle run alone: await runScrapingCycle() on an instance whose       *)
(* snapshot is loaded, with no other activation in flight.  Each step is    *)
(* one attempt of extractWithRetry with what follows it: the retryDelay     *)
(* wait, the next attempt, or processNewData with its save.  calls.n counts *)
(* the attempts made, calls.last tells how the last one went on, newData is *)
(* the value the Fetcher returned last, changes what processNewData         *)
(* returned.                                                                *)

CallCycle ==
  /\ calls.last \in {"none", "wait", "next"}
  /\ \E m \in imported : \E o \in FetchOutcomes(m) :
       LET attempt == calls.n + 1
           went(how) == [calls EXCEPT !.n = attempt, !.last = how, !.prev = calls.last]
       IN  IF o.raised
             THEN /\ calls' = went(IF afterRaise(attempt) = "wait" THEN "wait" ELSE "cycleFailed")
                  /\ UNCHANGED <<schedVars, oldData, newData, changes>>
           ELSE IF afterReturn(m, attempt, o.value) = "next"
             THEN /\ calls' = went("next")
                  /\ newData' = o.value
                  /\ UNCHANGED <<schedVars, oldData, changes>>
           ELSE LET r == processNewData(m, currentData[m], o.value)
                IN  /\ calls' = [Called("cycle", m, r.changes, r.saves) EXCEPT !.n = attempt]
                    /\ newData' = o.value
                    /\ changes' = [done |-> TRUE, value |-> r.changes]
                    /\ currentData' = [currentData EXCEPT ![m] = r.currentData]
                    /\ IF r.saves
                         THEN \E now \in SaveTimes :
                                \E w \in {dataToSave(m, o.value.items, now), Garbage} :
                                  file' = [file EXCEPT ![m] = w]
                         ELSE file' = file
                    /\ UNCHANGED <<imported, isRunning, timeoutId, timers, tasks, exited, ev,
                                   oldData>>

InitCycle ==
  /\ \E m \in Managers :
       /\ Constructed({m})
       /\ \E snap \in SeqsUpTo(Universe(m), MaxOld) :
            /\ currentData = [x \in Managers |-> IF x = m THEN snap ELSE <<>>]
            /\ file = [x \in Managers |-> IF x = m THEN dataToSave(m, snap, "t1") ELSE Absent]
  /\ oldData = <<>>
  /\ newData = JSNull
  /\ changes = [done |-> FALSE, value |-> NoChanges]
  /\ calls = NoCalls

NextCycle == CallCycle

SpecCycle == InitCycle /\ [][NextCycle]_vars

\* C23: in the stock scheduler no attempt that returned a value is followed
\* by another attempt; and a cycle whose fetch returned the empty sequence
\* while the snapshot was not empty returns a ChangeSet with nothing added,
\* nothing updated and every key of the snapshot removed once, with the
\* snapshot's record of that key, leaves this.currentData empty and calls
\* saveData([]), whose write, unless it fails, leaves a file with
\* recordCount 0 and no data.
C23_EmptyFetchRemovesAll ==
  "stock" \in imported =>
    /\ calls.last # "next"
    /\ (/\ calls.last = "cycle"
        /\ newData = Arr(<<>>)
        /\ calls.before # <<>>) =>
         LET c == changes.value
             keys == KeySet("stock", calls.before)
         IN  /\ c.added = <<>>
             /\ c.updated = <<>>
             /\ ExactlyOncePerKey([i \in 1..Len(c.removed) |->
                                     identity("stock", c.removed[i])], keys)
             /\ \A i \in 1..Len(c.removed) :
                  c.removed[i] = LastOf("stock", calls.before,
                                        identity("stock", c.removed[i]))
             /\ currentData["stock"] = <<>>
             /\ calls.wrote
             /\ file["stock"] # calls.fileBefore
             /\ file["stock"] # Garbage =>
                  /\ Member(file["stock"], "recordCount") = JNum(0)
                  /\ Member(file["stock"], "data") = JArr(<<>>)

\* the second attempt of a stock cycle, after one that raised, returned the
\* empty sequence while the snapshot held two records of different keys,
\* and the empty snapshot was written
C23_Witness ==
  /\ "stock" \in imported
  /\ calls.last = "cycle"
  /\ calls.prev = "wait"
  /\ calls.n = 2
  /\ newData = Arr(<<>>)
  /\ Len(changes.value.removed) = 2
  /\ currentData["stock"] = <<>>
  /\ file["stock"] = dataToSave("stock", <<>>, "t1")

-----------------------------------------------------------------------------
(* getRandomInterval: the delay before the next cycle.  A Number is an     *)
(* IEEE-754 double; Math.random() is k / 2^Significand for an integer k    *)
(* with 0 <= k < 2^Significand.  k and the exact product are kept in limbs *)
(* of LimbBits bits, least significant first, and the product is rounded   *)
(* to nearest, ties to even, as the multiplication of two doubles is.      *)

minInterval == 10 * 60 * 1000
maxInterval == 15 * 60 * 1000

\* significant bits of a double
Significand == 53

LimbBits == 12
Limb == 2^LimbBits
\* the full limbs of k, and the bits of its top limb
LowLimbs == Significand \div LimbBits
TopBits == Significand % LimbBits

RECURSIVE TimesFrom(_, _, _, _)
TimesFrom(x, w, i, carry) ==
  IF i > Len(x)
    THEN <<carry % Limb, carry \div Limb>>
    ELSE LET v == x[i] * w + carry
         IN  <<v % Limb>> \o TimesFrom(x, w, i + 1, v \div Limb)

\* x * w exactly, for w < 2^19
Multiply(x, w) == TimesFrom(x, w, 1, 0)

RECURSIVE BitLength(_)
BitLength(n) == IF n = 0 THEN 0 ELSE 1 + BitLength(n \div 2)

\* r * w as the double it is: whole is its integer part, half whether its
\* fraction is at least 1/2.  The exact product is whole + frac / 2^Significand;
\* a product of 1 or more keeps Significand bits from its leading one on, so
\* the last BitLength(whole) bits of frac are rounded away, and the rounding
\* carries into the integer part when every bit kept of frac is a one.
Product(r, w) ==
  LET p == Multiply(r, w)
      top == p[LowLimbs + 1] + Limb * p[LowLimbs + 2] + Limb * Limb * p[LowLimbs + 3]
      whole == top \div 2^TopBits
      fracTop == top % 2^TopBits
      b == BitLength(whole)
      low == p[1] + Limb * p[2]
      dropped == low % 2^b
      kept == low \div 2^b
      roundUp == b > 0 /\ \/ 2 * dropped > 2^b
                          \/ 2 * dropped = 2^b /\ kept % 2 = 1
      carries == /\ roundUp
                 /\ kept = 2^(2 * LimbBits - b) - 1
                 /\ \A i \in 3..LowLimbs : p[i] = Limb - 1
                 /\ fracTop = 2^TopBits - 1
  IN  IF carries THEN [whole |-> whole + 1, half |-> FALSE]
                 ELSE [whole |-> whole, half |-> 2 * fracTop >= 2^TopBits]

\* Math.floor of a double that is not negative
Floor(x) == x.whole

\* the delay were the product rounded to the nearest integer
getRandomIntervalRounded(random) ==
  LET x == Product(random, maxInterval - minInterval + 1)
  IN  (IF x.half THEN x.whole + 1 ELSE x.whole) + minInterval

\* getRandomInterval(), random being what Math.random() returns
getRandomInterval(random) ==
  Floor(Product(random, maxInterval - minInterval + 1)) + minInterval

RECURSIVE DigitsOf(_, _, _)
DigitsOf(rem, w, count) ==
  IF count = 0
    THEN <<>>
    ELSE DigitsOf((rem * Limb) % w, w, count - 1) \o <<(rem * Limb) \div w>>

\* the greatest k / 2^Significand whose exact product with w is at most n, n < w
JustBelow(n, w) ==
  DigitsOf((n * 2^TopBits) % w, w, LowLimbs) \o <<(n * 2^TopBits) \div w>>

\* the products aimed at: the least, those next to a power of two, the greatest
Aims ==
  LET span == maxInterval - minInterval + 1
  IN  (1..Spread) \cup ((2^18 - Spread)..(2^18 + Spread)) \cup ((span - Spread)..(span - 1))

\* values of Math.random(): 0, the greatest double below 1, and those just
\* below each product aimed at
RandomValues ==
  {[i \in 1..(LowLimbs + 1) |-> 0],
   [i \in 1..(LowLimbs + 1) |-> IF i > LowLimbs THEN 2^TopBits - 1 ELSE Limb - 1]}
    \cup { JustBelow(n, maxInterval - minInterval + 1) : n \in Aims }

\* one call of getRandomInterval()
CallInterval ==
  /\ calls.n < MaxDraws
  /\ \E random \in RandomValues :
       calls' = [calls EXCEPT !.n = @ + 1, !.last = "interval", !.prev = calls.last,
                              !.delays = @ \cup {getRandomInterval(random)}]
  /\ UNCHANGED <<schedVars, oldData, newData, changes>>

InitInterval ==
  /\ \E m \in Managers : Constructed({m})
  /\ currentData = [x \in Managers |-> <<>>]
  /\ file = [x \in Managers |-> Absent]
  /\ oldData = <<>>
  /\ newData = Arr(<<>>)
  /\ changes = [done |-> FALSE, value |-> NoChanges]
  /\ calls = NoCalls

NextInterval == CallInterval

SpecInterval == InitInterval /\ [][NextInterval]_vars

\* C21: every delay getRandomInterval() returns is an integer d with
\* minInterval <= d <= maxInterval, that is 600000 <= d <= 900000, whatever
\* Math.random() returned in [0, 1).
C21_DelayWithinInterval ==
  \A d \in calls.delays :
    /\ d \in Int
    /\ minInterval <= d /\ d <= maxInterval
    /\ 600000 <= d /\ d <= 900000

\* both ends were returned: minInterval by one call, maxInterval by another
C21_Witness ==
  /\ calls.last = "interval"
  /\ {minInterval, maxInterval} \subseteq calls.delays

=============================================================================
